---- MODULE Spec2Model ----
(***************************************************************************)
(* Model of Home.py, the portfolio dashboard script.                       *)
(*                                                                         *)
(* Money and percentages are kept as integers in hundredths (cents,        *)
(* hundredths of a percent); the running value of the history loop is in   *)
(* thousandths.  A draw of the random source is the index s of the point   *)
(* s/URes of the unit interval.                                            *)
(***************************************************************************)
EXTENDS Integers, Sequences, FiniteSets, TLC

\* ------------------------------------------------------------------ bounds
\* Half the resolution of the unit interval of the random source.
UHalf == 3
\* Largest num_assets the generator is called with.
MaxCount == 7
\* Largest days the history generator is called with.
MaxDays == 4
\* Clock ticks per calendar day, and the last tick the clock reaches.
TicksPerDay == 2
MaxTick == 2

URes == 2 * UHalf
Modulus == URes + 1

\* ------------------------------------------------------- program constants
\* len(assets), Home.py line 21
NumNames == 5
\* len(px.colors.qualitative.Set3), Home.py line 22
PaletteLen == 12
\* default num_assets, Home.py line 20
DefaultAssets == 5
\* default days, Home.py line 34
DefaultDays == 30
\* initial_value = 100000, in thousandths, Home.py line 37
InitialValueMilli == 100000000
\* fake.random.uniform(10000, 100000), in hundredths, Home.py line 26
ValueLo == 1000000
ValueHi == 10000000
\* fake.random.uniform(-15, 25), in hundredths, Home.py line 27
ReturnsLo == -1500
ReturnsHi == 2500
\* fake.random.uniform(5, 20), in hundredths, Home.py line 28
RiskLo == 500
RiskHi == 2000
\* fake.random.uniform(-0.02, 0.02), in hundredths, Home.py line 40
ChangeLo == -2
ChangeHi == 2

VARIABLES
    fake,           \* state of the process-wide random source fake.random
    now,            \* the clock datetime.now() reads, in ticks
    args,           \* arguments of the function call under study
    ret,            \* what that call returned
    session_state,  \* st.session_state of every session
    page            \* per session: the button of its last script run and what it rendered

vars == <<fake, now, args, ret, session_state, page>>

\* ---------------------------------------------------------------- helpers
Min(a, b) == IF a < b THEN a ELSE b
Max(a, b) == IF a > b THEN a ELSE b
Abs(a) == IF a < 0 THEN -a ELSE a

RECURSIVE SumSeq(_)
SumSeq(s) == IF s = <<>> THEN 0 ELSE Head(s) + SumSeq(Tail(s))

\* Python's seq[:n]
Slice(seq, n) ==
    IF n >= 0 THEN SubSeq(seq, 1, Min(n, Len(seq)))
    ELSE SubSeq(seq, 1, Max(0, Len(seq) + n))

\* Python's range(n), as the length of the list a comprehension over it builds
RangeLen(n) == Max(n, 0)

\* num/den (den > 0) rounded to the nearest integer, ties to even:
\* round(x, 2) and Series.round(2) on a value held in hundredths.
RoundHalfEven(num, den) ==
    LET a == Abs(num)
        q == a \div den
        r == a % den
        m == IF 2 * r > den \/ (2 * r = den /\ q % 2 = 1) THEN q + 1 ELSE q
    IN  IF num < 0 THEN -m ELSE m

\* round(x, 2) of the rational x = [num, den], x in hundredths
round2(x) == RoundHalfEven(x.num, x.den)

\* -------------------------------------------------------- random source
\* fake.random is a deterministic generator with hidden state.  Its state is
\* [s, inc]: the next draw is s/URes and the state then steps by inc modulo
\* URes + 1.  inc = 0 is a source fixed to one value.
RngStates == [s : 0 .. URes, inc : 0 .. URes]

DrawAt(rng, i) == (rng.s + i * rng.inc) % Modulus

After(rng, n) == [rng EXCEPT !.s = (rng.s + n * rng.inc) % Modulus]

\* random.uniform(a, b) = a + (b - a) * random(), as the rational [num, den]
uniformNoOffset(a, b, s) == [num |-> (b - a) * s, den |-> URes]

uniform(a, b, s) == [num |-> a * URes + (b - a) * s, den |-> URes]

\* ------------------------------------------------------------ generators
assets == <<"Stock", "Bond", "Real Estate", "Cryptocurrency", "Commodities">>

Set3 == [i \in 1 .. PaletteLen |-> i]

ColumnNames == {"Asset", "Value", "Returns", "Risk", "Colors"}

\* pd.DataFrame(dict of lists): raises ValueError unless all lists have one length
DataFrame(cols) ==
    IF \A c, d \in DOMAIN cols : Len(cols[c]) = Len(cols[d])
    THEN [raised |-> "none", df |-> cols]
    ELSE [raised |-> "ValueError", df |-> [c \in {} |-> <<>>]]

generate_portfolio_data_cycled(num_assets, rng) ==
    LET n == RangeLen(num_assets)
    IN  DataFrame(
          [Asset   |-> [i \in 1 .. n |-> assets[((i - 1) % NumNames) + 1]],
           Value   |-> [i \in 1 .. n |->
                          round2(uniform(ValueLo, ValueHi, DrawAt(rng, i - 1)))],
           Returns |-> [i \in 1 .. n |->
                          round2(uniform(ReturnsLo, ReturnsHi, DrawAt(rng, n + i - 1)))],
           Risk    |-> [i \in 1 .. n |->
                          round2(uniform(RiskLo, RiskHi, DrawAt(rng, 2 * n + i - 1)))],
           Colors  |-> Slice(Set3, num_assets)])

generate_portfolio_data(num_assets, rng) ==
    LET n == RangeLen(num_assets)
    IN  DataFrame(
          [Asset   |-> Slice(assets, num_assets),
           Value   |-> [i \in 1 .. n |->
                          round2(uniform(ValueLo, ValueHi, DrawAt(rng, i - 1)))],
           Returns |-> [i \in 1 .. n |->
                          round2(uniform(ReturnsLo, ReturnsHi, DrawAt(rng, n + i - 1)))],
           Risk    |-> [i \in 1 .. n |->
                          round2(uniform(RiskLo, RiskHi, DrawAt(rng, 2 * n + i - 1)))],
           Colors  |-> Slice(Set3, num_assets)])

\* number of draws generate_portfolio_data takes from the random source
PortfolioDraws(num_assets) == 3 * RangeLen(num_assets)

\* date() of a clock reading: the calendar day the tick falls in
DateOf(t) == t \div TicksPerDay

\* The clock readings of n successive datetime.now() calls that start at tick
\* t0: time may pass between two reads (here at most one tick, and not beyond
\* MaxTick).  c is the number of reads made before the tick.
Readings(t0, n) ==
    IF n = 0 THEN {<<>>}
    ELSE {[x \in 1 .. n |-> IF x > c THEN t0 + 1 ELSE t0] :
            c \in (IF t0 < MaxTick THEN 1 .. n ELSE {n})}

\* What the clock shows once the readings are made
ClockAfter(t0, nows) == IF nows = <<>> THEN t0 ELSE nows[Len(nows)]

\* v * num / den rounded to the nearest integer without leaving 32 bits
MulRound(v, num, den) ==
    (v \div den) * num + RoundHalfEven((v % den) * num, den)

\* One iteration of the loop on initial_value v (in thousandths) with draw s:
\* daily_change = uniform(-0.02, 0.02); initial_value *= (1 + daily_change).
\* The float product is kept to the nearest thousandth.
Compound(v, s) ==
    LET c == uniform(ChangeLo, ChangeHi, s)
    IN  v + MulRound(v, c.num, 100 * c.den)

\* portfolio_values from iteration i on, v being initial_value before it
RECURSIVE PortfolioValues(_, _, _, _)
PortfolioValues(rng, i, n, v) ==
    IF i > n THEN <<>>
    ELSE LET w == Compound(v, DrawAt(rng, i - 1))
         IN  <<RoundHalfEven(w, 10)>> \o PortfolioValues(rng, i + 1, n, w)

\* nows[x] is what datetime.now() returns for entry x - 1 of the comprehension
generate_historical_data(days, rng, nows) ==
    LET n == RangeLen(days)
    IN  DataFrame(
          [Date           |-> [x \in 1 .. n |->
                                 DateOf(nows[x] - (x - 1) * TicksPerDay)],
           PortfolioValue |-> PortfolioValues(rng, 1, n, InitialValueMilli)])

\* number of draws generate_historical_data takes from the random source
HistoricalDraws(days) == RangeLen(days)

\* --------------------------------------------------------- derived metrics
\* floor(n * 10^k / d) and the remainder, n >= 0, d > 0, one digit at a time
RECURSIVE DivScaled(_, _, _)
DivScaled(n, d, k) ==
    IF k = 0 THEN [q |-> n \div d, r |-> n % d]
    ELSE LET p == DivScaled(n, d, k - 1)
         IN  [q |-> p.q * 10 + (p.r * 10) \div d, r |-> (p.r * 10) % d]

\* A pandas float: a number of hundredths, or NaN, or +-inf
Num(v) == [kind |-> "num", val |-> v]
NaN == [kind |-> "nan", val |-> 0]
Inf(sign) == [kind |-> "inf", val |-> sign]

Sign(v) == IF v < 0 THEN -1 ELSE IF v > 0 THEN 1 ELSE 0

\* n * 10^k / d rounded to the nearest integer, ties to even
RoundScaled(n, d, k) ==
    LET p == DivScaled(Abs(n), Abs(d), k)
        m == IF 2 * p.r > Abs(d) \/ (2 * p.r = Abs(d) /\ p.q % 2 = 1)
             THEN p.q + 1 ELSE p.q
    IN  Sign(n) * Sign(d) * m

\* (v / total * 100).round(2) of one row, in hundredths of a percent
PercentOfRound0(v, total) ==
    IF total = 0 THEN (IF v = 0 THEN NaN ELSE Inf(Sign(v)))
    ELSE Num(100 * RoundScaled(v, total, 2))

PercentOf(v, total) ==
    IF total = 0 THEN (IF v = 0 THEN NaN ELSE Inf(Sign(v)))
    ELSE Num(RoundScaled(v, total, 4))

\* st.session_state.portfolio_df['Value'].sum()
total_value(df) == SumSeq(df.Value)

\* Series.mean(): the rational sum/len in hundredths, NaN on an empty column
meanSample(col) ==
    IF Len(col) <= 1 THEN [kind |-> "nan", num |-> 0, den |-> 1]
    ELSE [kind |-> "num", num |-> SumSeq(col), den |-> Len(col) - 1]

mean(col) ==
    IF Len(col) = 0 THEN [kind |-> "nan", num |-> 0, den |-> 1]
    ELSE [kind |-> "num", num |-> SumSeq(col), den |-> Len(col)]

avg_return(df) == mean(df.Returns)
avg_risk(df) == mean(df.Risk)

\* f"{x:.2f}" of a mean
Format2(m) == IF m.kind = "num" THEN Num(RoundHalfEven(m.num, m.den)) ELSE NaN

\* allocation_data: the Asset and Value columns plus the Percentage column
allocation_data(df) ==
    [Asset      |-> df.Asset,
     Value      |-> df.Value,
     Percentage |-> [i \in 1 .. Len(df.Value) |->
                       PercentOf(df.Value[i], SumSeq(df.Value))]]

NoArgs == [fn |-> "none"]
NoRet == [raised |-> "pending", df |-> [c \in {} |-> <<>>]]
NoSessions == [s \in {} |-> 0]

\* ------------------------------------------- generate_portfolio_data alone
InitGen ==
    /\ fake \in RngStates
    /\ now = 0
    /\ args \in [fn : {"generate_portfolio_data"}, num_assets : 0 .. MaxCount]
    /\ ret = NoRet
    /\ session_state = NoSessions
    /\ page = NoSessions

CallGeneratePortfolio ==
    /\ args.fn = "generate_portfolio_data"
    /\ ret = NoRet
    /\ ret' = generate_portfolio_data(args.num_assets, fake)
    /\ fake' = After(fake, PortfolioDraws(args.num_assets))
    /\ UNCHANGED <<now, args, session_state, page>>

NextGen == CallGeneratePortfolio

SpecGen == InitGen /\ [][NextGen]_vars

\* ------------------------------------------ generate_historical_data alone
InitHist ==
    /\ fake \in RngStates
    /\ now \in 0 .. MaxTick
    /\ args \in [fn : {"generate_historical_data"}, days : 0 .. MaxDays]
    /\ ret = NoRet
    /\ session_state = NoSessions
    /\ page = NoSessions

CallGenerateHistorical ==
    /\ args.fn = "generate_historical_data"
    /\ ret = NoRet
    /\ \E nows \in Readings(now, RangeLen(args.days)) :
         /\ ret' = generate_historical_data(args.days, fake, nows)
         /\ now' = ClockAfter(now, nows)
    /\ fake' = After(fake, HistoricalDraws(args.days))
    /\ UNCHANGED <<args, session_state, page>>

NextHist == CallGenerateHistorical

SpecHist == InitHist /\ [][NextHist]_vars

\* ------------------------------------------------------- the script, per run
Buttons ==
    {"Refresh Data", "Show Portfolio Overview", "Show Asset Allocation",
     "Show Historical Performance", "Show Risk vs Return Analysis",
     "Show Detailed Asset Analysis"}

EmptyState == [k \in {} |-> 0]
BothKeys == {"portfolio_df", "historical_df"}
NoPage == [button |-> "none", sections |-> <<>>]

\* The clock readings a script run may see: the tick falls after the first
\* read of the history comprehension or not at all.
RunReadings(t0, n) == {r \in Readings(t0, n) : r[2] = r[n]}

\* 'key' not in st.session_state
NotInAlways(key, ss) == TRUE

NotIn(key, ss) == key \notin DOMAIN ss

\* st.session_state.key = value
SetItem(ss, key, value) ==
    [k \in DOMAIN ss \cup {key} |-> IF k = key THEN value ELSE ss[k]]

\* lines 53-56: generate what the session does not hold yet
EnsureData(ss, rng, nows) ==
    LET needP == NotIn("portfolio_df", ss)
        ss1 == IF needP
               THEN SetItem(ss, "portfolio_df",
                            generate_portfolio_data(DefaultAssets, rng).df)
               ELSE ss
        rng1 == IF needP THEN After(rng, PortfolioDraws(DefaultAssets)) ELSE rng
        needH == NotIn("historical_df", ss1)
        ss2 == IF needH
               THEN SetItem(ss1, "historical_df",
                            generate_historical_data(DefaultDays, rng1, nows).df)
               ELSE ss1
        rng2 == IF needH THEN After(rng1, HistoricalDraws(DefaultDays)) ELSE rng1
    IN  [ss |-> ss2, rng |-> rng2, read |-> needH]

\* lines 59-61: the Refresh Data handler
RefreshPortfolioOnly(ss, rng, nows) ==
    [ss |-> SetItem(ss, "portfolio_df",
                    generate_portfolio_data(DefaultAssets, rng).df),
     rng |-> After(rng, PortfolioDraws(DefaultAssets)),
     read |-> FALSE]

Refresh(ss, rng, nows) ==
    LET rng1 == After(rng, PortfolioDraws(DefaultAssets))
        ss1 == SetItem(ss, "portfolio_df",
                       generate_portfolio_data(DefaultAssets, rng).df)
        ss2 == SetItem(ss1, "historical_df",
                       generate_historical_data(DefaultDays, rng1, nows).df)
    IN  [ss |-> ss2, rng |-> After(rng1, HistoricalDraws(DefaultDays)),
         read |-> TRUE]

\* df.drop('Colors', axis=1) and df[[...]].copy(): a new table of the kept columns
Columns(df, keep) == [c \in keep |-> df[c]]

SeqMin(col) == CHOOSE v \in {col[i] : i \in 1 .. Len(col)} :
                  \A i \in 1 .. Len(col) : v <= col[i]
SeqMax(col) == CHOOSE v \in {col[i] : i \in 1 .. Len(col)} :
                  \A i \in 1 .. Len(col) : v >= col[i]

\* df[['Value', 'Returns', 'Risk']].describe(): count, mean, min and max of
\* each column (the std and quartile rows are not modelled)
describe(df) ==
    [c \in {"Value", "Returns", "Risk"} |->
        [count |-> Len(df[c]),
         mean  |-> Format2(mean(df[c])),
         min   |-> IF Len(df[c]) = 0 THEN NaN ELSE Num(SeqMin(df[c])),
         max   |-> IF Len(df[c]) = 0 THEN NaN ELSE Num(SeqMax(df[c]))]]

\* What each section shows, computed from the session's state
Content(button, ss) ==
    CASE button = "Show Portfolio Overview" ->
           [data    |-> Columns(ss["portfolio_df"], {"Asset", "Value", "Returns", "Risk"}),
            metrics |-> [total_value |-> Num(total_value(ss["portfolio_df"])),
                         avg_return  |-> Format2(avg_return(ss["portfolio_df"])),
                         avg_risk    |-> Format2(avg_risk(ss["portfolio_df"]))],
            chart   |-> <<>>]
      [] button = "Show Asset Allocation" ->
           [data    |-> allocation_data(ss["portfolio_df"]),
            metrics |-> <<>>,
            chart   |-> Columns(ss["portfolio_df"], {"Asset", "Value", "Colors"})]
      [] button = "Show Historical Performance" ->
           [data    |-> ss["historical_df"],
            metrics |-> <<>>,
            chart   |-> ss["historical_df"]]
      [] button = "Show Risk vs Return Analysis" ->
           [data    |-> Columns(ss["portfolio_df"], {"Asset", "Risk", "Returns", "Value"}),
            metrics |-> <<>>,
            chart   |-> ss["portfolio_df"]]
      [] button = "Show Detailed Asset Analysis" ->
           [data    |-> Columns(ss["portfolio_df"], {"Asset", "Value", "Returns", "Risk"}),
            metrics |-> describe(ss["portfolio_df"]),
            chart   |-> <<>>]

\* st.button(label): True only in the run its click triggered
PressedOrOverview(button, label) ==
    button = label \/ label = "Show Portfolio Overview"

Pressed(button, label) == button = label

ShowButtons ==
    <<"Show Portfolio Overview", "Show Asset Allocation",
      "Show Historical Performance", "Show Risk vs Return Analysis",
      "Show Detailed Asset Analysis">>

\* lines 63-171: the sections rendered, in script order
RECURSIVE Sections(_, _, _)
Sections(button, ss, i) ==
    IF i > Len(ShowButtons) THEN <<>>
    ELSE (IF Pressed(button, ShowButtons[i])
          THEN <<[name |-> ShowButtons[i], content |-> Content(ShowButtons[i], ss)]>>
          ELSE <<>>) \o Sections(button, ss, i + 1)

\* st.session_state belongs to one session
StoreGlobal(all, s, ss) == [t \in DOMAIN all |-> ss]

Store(all, s, ss) == [all EXCEPT ![s] = ss]

\* One execution of the script for session s, triggered by a page load
\* (button = "none") or by a click on button.  A button can only be clicked
\* on a page that a previous run rendered.
ScriptRun(s, button) ==
    /\ s \in DOMAIN session_state
    /\ button # "none" => page[s] # NoPage \/ session_state[s] # EmptyState
    /\ \E nows \in RunReadings(now, DefaultDays) :
       \E e \in {EnsureData(session_state[s], fake, nows)} :
       \E r \in {IF Pressed(button, "Refresh Data")
                 THEN Refresh(e.ss, e.rng, nows)
                 ELSE [ss |-> e.ss, rng |-> e.rng, read |-> FALSE]} :
         /\ (~(e.read \/ r.read)) => nows[DefaultDays] = now
         /\ session_state' = Store(session_state, s, r.ss)
         /\ fake' = r.rng
         /\ now' = IF e.read \/ r.read THEN ClockAfter(now, nows) ELSE now
         /\ page' = [page EXCEPT ![s] =
                       [button |-> button, sections |-> Sections(button, r.ss, 1)]]
    /\ UNCHANGED <<args, ret>>

PageLoad(s) == ScriptRun(s, "none")
RefreshData(s) == ScriptRun(s, "Refresh Data")
ShowPortfolioOverview(s) == ScriptRun(s, "Show Portfolio Overview")
ShowAssetAllocation(s) == ScriptRun(s, "Show Asset Allocation")
ShowHistoricalPerformance(s) == ScriptRun(s, "Show Historical Performance")
ShowRiskVsReturn(s) == ScriptRun(s, "Show Risk vs Return Analysis")
ShowDetailedAssetAnalysis(s) == ScriptRun(s, "Show Detailed Asset Analysis")

\* Time passes between interactions
Tick ==
    /\ now < MaxTick
    /\ now' = now + 1
    /\ UNCHANGED <<fake, args, ret, session_state, page>>

InitSessions(S) ==
    /\ fake \in RngStates
    /\ now = 0
    /\ args = NoArgs
    /\ ret = NoRet
    /\ session_state = [s \in S |-> EmptyState]
    /\ page = [s \in S |-> NoPage]

Init == InitSessions({"A"})

Next ==
    \/ \E s \in DOMAIN session_state : PageLoad(s)
    \/ \E s \in DOMAIN session_state : RefreshData(s)
    \/ \E s \in DOMAIN session_state : ShowPortfolioOverview(s)
    \/ \E s \in DOMAIN session_state : ShowAssetAllocation(s)
    \/ \E s \in DOMAIN session_state : ShowHistoricalPerformance(s)
    \/ \E s \in DOMAIN session_state : ShowRiskVsReturn(s)
    \/ \E s \in DOMAIN session_state : ShowDetailedAssetAnalysis(s)
    \/ Tick

Spec == Init /\ [][Next]_vars

\* Two sessions served by one process: they share fake.random (a source that
\* is fixed or steps by one) and the clock, which stands still here.
InitTwo ==
    /\ fake \in {rng \in RngStates : rng.inc <= 1}
    /\ now = MaxTick
    /\ args = NoArgs
    /\ ret = NoRet
    /\ session_state = [s \in {"A", "B"} |-> EmptyState]
    /\ page = [s \in {"A", "B"} |-> NoPage]

NextTwo ==
    \/ \E s \in DOMAIN session_state : PageLoad(s)
    \/ \E s \in DOMAIN session_state : RefreshData(s)
    \/ \E s \in DOMAIN session_state : ShowPortfolioOverview(s)
    \/ \E s \in DOMAIN session_state : ShowAssetAllocation(s)
    \/ \E s \in DOMAIN session_state : ShowHistoricalPerformance(s)
    \/ \E s \in DOMAIN session_state : ShowRiskVsReturn(s)
    \/ \E s \in DOMAIN session_state : ShowDetailedAssetAnalysis(s)

SpecTwo == InitTwo /\ [][NextTwo]_vars

\* ------------------------------------- the metrics over any asset table
\* Values, in hundredths, an asset table is filled with
TableValues == {0, 1, 2, 3, ValueLo, ValueHi}

Tables ==
    UNION {{[Asset   |-> Slice(assets, n),
             Value   |-> v,
             Returns |-> [i \in 1 .. n |-> ReturnsHi],
             Risk    |-> [i \in 1 .. n |-> RiskLo],
             Colors  |-> Slice(Set3, n)] : v \in [1 .. n -> TableValues]} :
           n \in 0 .. NumNames}

InitMetrics ==
    /\ fake = [s |-> 0, inc |-> 0]
    /\ now = 0
    /\ args = NoArgs
    /\ ret = NoRet
    /\ \E df \in Tables :
         session_state =
           [s \in {"A"} |->
              [k \in BothKeys |->
                 IF k = "portfolio_df" THEN df
                 ELSE generate_historical_data(0, fake, <<>>).df]]
    /\ page = [s \in {"A"} |-> NoPage]

NextMetrics ==
    \/ \E s \in DOMAIN session_state : ShowPortfolioOverview(s)
    \/ \E s \in DOMAIN session_state : ShowAssetAllocation(s)

SpecMetrics == InitMetrics /\ [][NextMetrics]_vars

\* ------------------------------------------------------------------ claims
Returned == ret # NoRet
Distinct(seq) == \A i, j \in 1 .. Len(seq) : seq[i] = seq[j] => i = j
InRange(col, lo, hi) == \A i \in 1 .. Len(col) : lo <= col[i] /\ col[i] <= hi
AllEqual(col, n, v) == Len(col) = n /\ \A i \in 1 .. n : col[i] = v

\* C1: for every count in 1..5 generate_portfolio_data(count) returns exactly
\* count rows named by the first count names of the enumeration, without
\* duplicates, with Value in [10000,100000], Returns in [-15,25] and Risk in
\* [5,20], whatever the random source draws.
C1_RowsNamesRanges ==
    (Returned /\ args.fn = "generate_portfolio_data"
       /\ args.num_assets \in 1 .. NumNames) =>
        /\ ret.raised = "none"
        /\ \A c \in ColumnNames : Len(ret.df[c]) = args.num_assets
        /\ ret.df.Asset = SubSeq(assets, 1, args.num_assets)
        /\ Distinct(ret.df.Asset)
        /\ InRange(ret.df.Value, ValueLo, ValueHi)
        /\ InRange(ret.df.Returns, ReturnsLo, ReturnsHi)
        /\ InRange(ret.df.Risk, RiskLo, RiskHi)

C1_Witness ==
    /\ Returned /\ args.fn = "generate_portfolio_data"
    /\ args.num_assets = 3
    /\ ret.raised = "none"
    /\ ret.df.Value[1] = ValueLo
    /\ ret.df.Value[2] = ValueHi
    /\ ret.df.Returns[1] \notin {ReturnsLo, ReturnsHi}

\* C6: with the random source fixed at the midpoint, generate_portfolio_data(5)
\* yields the five named rows with Value 55000, Returns 5.0 and Risk 12.5;
\* over that table the total is 275000, the average return 5.0, the average
\* risk 12.5 and every allocation percentage 20.00.
C6_MidpointScenario ==
    (Returned /\ args.fn = "generate_portfolio_data"
       /\ args.num_assets = 5 /\ fake = [s |-> UHalf, inc |-> 0]) =>
        /\ ret.raised = "none"
        /\ ret.df.Asset = assets
        /\ AllEqual(ret.df.Value, 5, 5500000)
        /\ AllEqual(ret.df.Returns, 5, 500)
        /\ AllEqual(ret.df.Risk, 5, 1250)
        /\ total_value(ret.df) = 27500000
        /\ avg_return(ret.df).kind = "num"
        /\ avg_return(ret.df).num = 500 * avg_return(ret.df).den
        /\ Format2(avg_return(ret.df)) = Num(500)
        /\ avg_risk(ret.df).kind = "num"
        /\ avg_risk(ret.df).num = 1250 * avg_risk(ret.df).den
        /\ Format2(avg_risk(ret.df)) = Num(1250)
        /\ AllEqual(allocation_data(ret.df).Percentage, 5, Num(2000))

C6_Witness ==
    /\ Returned /\ args.fn = "generate_portfolio_data"
    /\ args.num_assets = 5 /\ fake = [s |-> UHalf, inc |-> 0]
    /\ ret.raised = "none"
    /\ Len(ret.df.Value) = 5

\* C8: called with a count above 5, generate_portfolio_data is rejected or
\* clamped: it never returns a table with more than 5 rows, a duplicated or
\* foreign asset name, or columns of different lengths.
C8_OverCountNeverReturnsBadTable ==
    (Returned /\ args.fn = "generate_portfolio_data"
       /\ args.num_assets > NumNames) =>
        \/ ret.raised # "none"
        \/ /\ Len(ret.df.Asset) <= NumNames
           /\ Distinct(ret.df.Asset)
           /\ \A i \in 1 .. Len(ret.df.Asset) :
                 \E j \in 1 .. NumNames : ret.df.Asset[i] = assets[j]
           /\ \A c \in ColumnNames : Len(ret.df[c]) = Len(ret.df.Asset)

C8_Witness ==
    /\ Returned /\ args.fn = "generate_portfolio_data"
    /\ args.num_assets = NumNames + 1
    /\ ret.raised = "ValueError"

\* C2: for every days >= 1 generate_historical_data(days) returns exactly days
\* entries, each date exactly one calendar day before the previous one, and
\* every portfolio value > 0, for every sequence of drawn deltas and whenever
\* the clock is read during the call.
C2_DatesStepOneDayValuesPositive ==
    (Returned /\ args.fn = "generate_historical_data" /\ args.days >= 1) =>
        /\ ret.raised = "none"
        /\ Len(ret.df.Date) = args.days
        /\ Len(ret.df.PortfolioValue) = args.days
        /\ \A i \in 1 .. args.days - 1 : ret.df.Date[i + 1] = ret.df.Date[i] - 1
        /\ \A i \in 1 .. args.days : ret.df.PortfolioValue[i] > 0

Loaded(s) == DOMAIN session_state[s] = BothKeys
Shows(s, label) ==
    /\ page[s].button = label
    /\ Len(page[s].sections) = 1
    /\ page[s].sections[1].name = label
Shown(s) == page[s].sections[1].content

\* C3: the tables are generated on the first page load and then cached: a step
\* that is not a Refresh Data run leaves portfolio_df and historical_df of
\* every loaded session unchanged, and what a section shows is computed from
\* that snapshot.
C3_CachedUntilRefresh ==
    /\ [](\A s \in DOMAIN session_state :
            /\ DOMAIN session_state[s] \in {{}, BothKeys}
            /\ page[s] # NoPage => Loaded(s)
            /\ page[s].sections # <<>> =>
                 Shown(s) = Content(page[s].button, session_state[s]))
    /\ [][(~ \E s \in DOMAIN session_state :
                 page'[s].button = "Refresh Data" /\ RefreshData(s)) =>
            \A s \in DOMAIN session_state :
               Loaded(s) => session_state'[s] = session_state[s]]_vars

C3_Witness ==
    /\ Loaded("A")
    /\ Shows("A", "Show Historical Performance")
    /\ Shown("A").data = session_state["A"]["historical_df"]
    /\ session_state["A"]["portfolio_df"].Value[1] # session_state["A"]["portfolio_df"].Value[2]

\* C4: every Refresh Data run replaces the asset table and the history
\* together by freshly generated data: after it both are exactly what the two
\* generators return on the draws and clock readings of that run, so nothing
\* of the previous snapshot remains; this holds for each of two successive runs.
C4_RefreshReplacesBoth ==
    [][\A s \in DOMAIN session_state :
         (page'[s].button = "Refresh Data" /\ RefreshData(s)) =>
           /\ DOMAIN session_state'[s] = BothKeys
           /\ session_state'[s]["portfolio_df"] =
                generate_portfolio_data(DefaultAssets, fake).df
           /\ \E nows \in RunReadings(now, DefaultDays) :
                /\ now' = ClockAfter(now, nows)
                /\ session_state'[s]["historical_df"] =
                     generate_historical_data(
                       DefaultDays, After(fake, PortfolioDraws(DefaultAssets)), nows).df
           /\ fake' = After(fake, PortfolioDraws(DefaultAssets)
                                   + HistoricalDraws(DefaultDays))]_vars

C4_Witness ==
    /\ page["A"].button = "Refresh Data"
    /\ Loaded("A")
    /\ fake.inc = 1
    /\ session_state["A"]["portfolio_df"] # generate_portfolio_data(DefaultAssets, fake).df

\* C5: for every asset table with 1 to 5 rows and a non-zero total, the
\* percentages Show Asset Allocation computes sum to 100 within 0.1.
C5_PercentagesSumTo100 ==
    \A s \in DOMAIN session_state :
       (/\ Shows(s, "Show Asset Allocation")
        /\ Len(session_state[s]["portfolio_df"].Value) \in 1 .. NumNames
        /\ total_value(session_state[s]["portfolio_df"]) # 0) =>
          LET pct == Shown(s).data.Percentage
          IN  /\ Len(pct) = Len(session_state[s]["portfolio_df"].Value)
              /\ \A i \in 1 .. Len(pct) : pct[i].kind = "num"
              /\ Abs(SumSeq([i \in 1 .. Len(pct) |-> pct[i].val]) - 10000) <= 10

C5_Witness ==
    /\ Shows("A", "Show Asset Allocation")
    /\ session_state["A"]["portfolio_df"].Value = <<1, 1, 1>>
    /\ SumSeq([i \in 1 .. 3 |-> Shown("A").data.Percentage[i].val]) = 9999

C10_OneSectionPerRun ==
    /\ [](\A s \in DOMAIN session_state :
            /\ Len(page[s].sections) <= 1
            /\ page[s].button \in {"none", "Refresh Data"} => page[s].sections = <<>>
            /\ page[s].button \notin {"none", "Refresh Data"} =>
                 /\ Len(page[s].sections) = 1
                 /\ page[s].sections[1].name = page[s].button
                 /\ Shown(s) = Content(page[s].button, session_state[s]))
    /\ [][\A s \in DOMAIN session_state :
            \A b \in Buttons \ {"Refresh Data"} :
               (page[s].button = b /\ page'[s].button = b /\ ScriptRun(s, b)) =>
                  page'[s] = page[s]]_vars

C10_Witness ==
    /\ Shows("A", "Show Detailed Asset Analysis")
    /\ Shown("A").metrics.Value.count = DefaultAssets
    /\ fake.inc = 1

====
